---- MODULE Spec2Model ----
(***************************************************************************)
(* Model of src/network/network.rs: a stack of dense layers with forward   *)
(* inference, backpropagation, the first-layer update, the training loop,  *)
(* the batch evaluation helpers and the textual persistence format.        *)
(*                                                                         *)
(* Numbers are f32 in the source.  They are modelled by a scaled-down      *)
(* binary floating-point format: a value is an integer count of units of   *)
(* 2^-FracBits, and every arithmetic result is rounded to Precision        *)
(* significant bits, to nearest, ties to even, as IEEE-754 does with 24.   *)
(* Vector, Matrix and Layer live in crate::data_structures, outside this   *)
(* file; their operations are modelled from the specification text.        *)
(***************************************************************************)
EXTENDS Integers, Sequences, FiniteSets

(***************************************************************************)
(* Bounds of the model                                                     *)
(***************************************************************************)
Precision == 4
FracBits == 4
MaxOps == 2
MaxTrainEpochs == 2
MaxK == 3
MaxEpochs == 10
MaxTextLayers == 3

(***************************************************************************)
(* f32 arithmetic                                                          *)
(***************************************************************************)
RECURSIVE Pow2(_)
Pow2(n) == IF n = 0 THEN 1 ELSE 2 * Pow2(n - 1)

Unit == Pow2(FracBits)

Half == Unit \div 2

Abs(x) == IF x < 0 THEN -x ELSE x

RECURSIVE Spacing(_)
Spacing(q) == IF q < Pow2(Precision) THEN 1 ELSE 2 * Spacing(q \div 2)

\* of the neighbours lo and lo + s of num / den, the nearer; on a tie the
\* one whose last bit is zero
Nearest(num, den, lo, s) ==
    IF 2 * (num - lo * den) < s * den THEN lo
    ELSE IF 2 * (num - lo * den) > s * den THEN lo + s
    ELSE IF (lo \div s) % 2 = 0 THEN lo ELSE lo + s

RoundStep(num, den, s) == Nearest(num, den, ((num \div den) \div s) * s, s)

RoundPos(num, den) == RoundStep(num, den, Spacing(num \div den))

RoundRatio(num, den) ==
    IF num < 0 THEN -RoundPos(-num, den) ELSE RoundPos(num, den)

F32Add(a, b) == RoundRatio(a + b, 1)

F32Sub(a, b) == RoundRatio(a - b, 1)

F32Mul(a, b) == RoundRatio(a * b, Unit)

F32Div(a, b) ==
    IF b < 0 THEN RoundRatio(-(a * Unit), -b) ELSE RoundRatio(a * Unit, b)

FromUsize(n) == RoundRatio(n * Unit, 1)

RECURSIVE ISqrt(_)
ISqrt(m) ==
    IF m < 2 THEN m
    ELSE LET r == 2 * ISqrt(m \div 4)
         IN  IF (r + 1) * (r + 1) <= m THEN r + 1 ELSE r

\* of the neighbours lo and lo + s of the square root of m, the nearer
SqrtNearest(m, lo, s) ==
    IF 4 * m < (2 * lo + s) * (2 * lo + s) THEN lo
    ELSE IF 4 * m > (2 * lo + s) * (2 * lo + s) THEN lo + s
    ELSE IF (lo \div s) % 2 = 0 THEN lo ELSE lo + s

SqrtStep(m, q, s) == SqrtNearest(m, (q \div s) * s, s)

SqrtRound(m, q) == SqrtStep(m, q, Spacing(q))

F32Sqrt(a) == SqrtRound(a * Unit, ISqrt(a * Unit))

(***************************************************************************)
(* Vector and Matrix (crate::data_structures)                              *)
(***************************************************************************)
Vector_zeros(n) == [i \in 1..n |-> 0]

Vector_ones(n) == [i \in 1..n |-> Unit]

Vector_add(a, b) == [i \in 1..Len(a) |-> F32Add(a[i], b[i])]

Vector_subtract(a, b) == [i \in 1..Len(a) |-> F32Sub(a[i], b[i])]

Vector_elementwise_multiply(a, b) == [i \in 1..Len(a) |-> F32Mul(a[i], b[i])]

Vector_scalar_multiply(a, k) == [i \in 1..Len(a) |-> F32Mul(a[i], k)]

RECURSIVE SumSquares(_, _)
SumSquares(a, n) ==
    IF n = 0 THEN 0 ELSE F32Add(SumSquares(a, n - 1), F32Mul(a[n], a[n]))

Vector_magnitude(a) == F32Sqrt(SumSquares(a, Len(a)))

Matrix_new(rows, cols, elems) ==
    [row_count |-> rows, col_count |-> cols, elements |-> elems]

Matrix_zeros(rows, cols) ==
    Matrix_new(rows, cols, [r \in 1..rows |-> [c \in 1..cols |-> 0]])

SameShape(a, b) == a.row_count = b.row_count /\ a.col_count = b.col_count

Matrix_add(a, b) ==
    Matrix_new(a.row_count, a.col_count,
        [r \in 1..a.row_count |-> [c \in 1..a.col_count |->
            F32Add(a.elements[r][c], b.elements[r][c])]])

Matrix_scalar_multiply(a, k) ==
    Matrix_new(a.row_count, a.col_count,
        [r \in 1..a.row_count |-> [c \in 1..a.col_count |->
            F32Mul(a.elements[r][c], k)]])

(***************************************************************************)
(* Layer (crate::data_structures)                                          *)
(***************************************************************************)
Layer_new(w, b) == [weights |-> w, biases |-> b]

\* the fixed nonlinearity: a piecewise-linear logistic curve, z/4 + 1/2
\* clamped to [0, 1]
Clamp(y) == IF y < 0 THEN 0 ELSE IF y > Unit THEN Unit ELSE y

Activation(z) == Clamp(F32Add(RoundRatio(z, 4), Half))

RECURSIVE Dot(_, _, _)
Dot(row, x, n) ==
    IF n = 0 THEN 0 ELSE F32Add(Dot(row, x, n - 1), F32Mul(row[n], x[n]))

Layer_forward(layer, input) ==
    [r \in 1..layer.weights.row_count |->
        Activation(F32Add(Dot(layer.weights.elements[r], input,
                              layer.weights.col_count), layer.biases[r]))]

RECURSIVE DotT(_, _, _, _)
DotT(w, c, d, n) ==
    IF n = 0 THEN 0
    ELSE F32Add(DotT(w, c, d, n - 1), F32Mul(w.elements[n][c], d[n]))

Layer_delta(layer, d, gradient) ==
    [c \in 1..layer.weights.col_count |->
        F32Mul(DotT(layer.weights, c, d, layer.weights.row_count), gradient[c])]

Layer_weight_gradients(layer, input, output, d) ==
    Matrix_new(Len(input), Len(d),
        [i \in 1..Len(input) |-> [j \in 1..Len(d) |-> F32Mul(input[i], d[j])]])

(***************************************************************************)
(* Network: the pure computations                                          *)
(***************************************************************************)
OK == "ok"

ShapeMismatch == "ShapeMismatch"

NoVector == <<>>

NoMatrix == Matrix_new(0, 0, <<>>)

RECURSIVE forward_fold(_, _, _)
forward_fold(layers, input, n) ==
    IF n = 0 THEN input
    ELSE Layer_forward(layers[n], forward_fold(layers, input, n - 1))

push_output(outputs, layer) ==
    Append(outputs, Layer_forward(layer, outputs[Len(outputs)]))

\* the cache of backward: the input, then the output of every layer
RECURSIVE Outputs(_, _, _)
Outputs(layers, input, n) ==
    IF n = 0 THEN <<input>>
    ELSE push_output(Outputs(layers, input, n - 1), layers[n])

\* every layer.forward of a pass over the stack gets an input of its width
RECURSIVE forward_ok(_, _, _)
forward_ok(layers, width, n) ==
    IF n = 0 THEN TRUE
    ELSE /\ forward_ok(layers, width, n - 1)
         /\ layers[n].weights.col_count =
                (IF n = 1 THEN width ELSE layers[n - 1].weights.row_count)

forward(layers, input) == forward_fold(layers, input, Len(layers))

predict(layers, input) == forward_fold(layers, input, Len(layers))

delta(error, gradient) == Vector_elementwise_multiply(error, gradient)

weight_gradients(layers, input, output, gradient) ==
    LET cols == layers[Len(layers)].weights.col_count
        rows == layers[Len(layers)].weights.row_count
    IN  Matrix_new(cols, rows,
            [i \in 1..cols |-> [j \in 1..rows |-> F32Mul(input[i], gradient[j])]])

\* the derivative of the activation as backward evaluates it from an output
output_gradient(output) ==
    Vector_elementwise_multiply(output,
        Vector_subtract(output, Vector_ones(Len(output))))

\* one step of the loop over the hidden layers: the delta and the weight
\* gradients of layer i (zero-based) join the lists
backward_step(loc, next_delta, next_wg) ==
    [loc EXCEPT !.deltas = Append(@, next_delta),
                !.weight_gradients = Append(@, next_wg)]

backward_layer(layers, i, loc, next_delta) ==
    backward_step(loc, next_delta,
        Layer_weight_gradients(layers[i + 1], loc.outputs[i],
                               loc.outputs[i + 1], next_delta))

\* the loop as it would be if every step took the output layer's delta
RECURSIVE backward_loop_stale(_, _, _)
backward_loop_stale(layers, i, loc) ==
    IF i < 1 THEN loc
    ELSE backward_loop_stale(layers, i - 1,
             backward_layer(layers, i, loc,
                 Layer_delta(layers[i + 1], loc.deltas[1],
                             output_gradient(loc.outputs[i + 1]))))

\* the loop over the hidden layers; i is the zero-based index of the source
RECURSIVE backward_loop(_, _, _)
backward_loop(layers, i, loc) ==
    IF i < 1 THEN loc
    ELSE backward_loop(layers, i - 1,
             backward_layer(layers, i, loc,
                 Layer_delta(layers[i + 1], loc.deltas[Len(loc.deltas)],
                             output_gradient(loc.outputs[i + 1]))))

RECURSIVE sum_matrices(_, _, _)
sum_matrices(zero, ms, n) ==
    IF n = 0 THEN zero ELSE Matrix_add(sum_matrices(zero, ms, n - 1), ms[n])

RECURSIVE sum_vectors(_, _, _)
sum_vectors(zero, vs, n) ==
    IF n = 0 THEN zero ELSE Vector_add(sum_vectors(zero, vs, n - 1), vs[n])

\* the locals of backward once the output layer is done
backward_output(layers, outputs, error, d) ==
    [outputs |-> outputs, error |-> error, deltas |-> <<d>>,
     weight_gradients |->
         <<weight_gradients(layers, outputs[Len(layers)],
                            outputs[Len(layers) + 1], d)>>]

backward_delta(layers, outputs, error) ==
    backward_output(layers, outputs, error,
        delta(error, output_gradient(outputs[Len(layers) + 1])))

backward_error(layers, target, outputs) ==
    backward_delta(layers, outputs,
        Vector_subtract(outputs[Len(layers) + 1], target))

\* the locals of backward up to the end of the loop over the layers
backward_locals(layers, input, target) ==
    backward_loop(layers, Len(layers) - 1,
        backward_error(layers, target, Outputs(layers, input, Len(layers))))

backward_failed ==
    [status |-> ShapeMismatch, outputs |-> <<>>, error |-> NoVector,
     deltas |-> <<>>, weight_gradients |-> <<>>,
     total_weight_gradients |-> NoMatrix, total_delta |-> NoVector]

\* the accumulation of the per-layer results into the pair backward returns
backward_totals(loc, zero_m, zero_v) ==
    IF \/ \E k \in 1..Len(loc.weight_gradients) :
              ~SameShape(zero_m, loc.weight_gradients[k])
       \/ \E k \in 1..Len(loc.deltas) : Len(loc.deltas[k]) # Len(zero_v)
    THEN [backward_failed EXCEPT
            !.outputs = loc.outputs, !.error = loc.error,
            !.deltas = loc.deltas, !.weight_gradients = loc.weight_gradients]
    ELSE [status |-> OK, outputs |-> loc.outputs, error |-> loc.error,
          deltas |-> loc.deltas, weight_gradients |-> loc.weight_gradients,
          total_weight_gradients |->
              sum_matrices(zero_m, loc.weight_gradients, Len(loc.weight_gradients)),
          total_delta |-> sum_vectors(zero_v, loc.deltas, Len(loc.deltas))]

backward(layers, input, target) ==
    IF ~forward_ok(layers, Len(input), Len(layers)) THEN backward_failed
    ELSE IF Len(target) # layers[Len(layers)].weights.row_count THEN backward_failed
    ELSE backward_totals(backward_locals(layers, input, target),
             Matrix_zeros(layers[1].weights.col_count, layers[1].weights.row_count),
             Vector_zeros(layers[1].weights.row_count))

\* update as it would be if it adjusted the last layer instead of the first
update_last_layer(layers, wg, d, learning_rate) ==
    LET n == Len(layers)
    IN  IF ~SameShape(wg, layers[n].weights)
        THEN [status |-> ShapeMismatch, layers |-> layers]
        ELSE LET w == Matrix_add(Matrix_scalar_multiply(wg, learning_rate),
                                 layers[n].weights)
                 l1 == [layers EXCEPT ![n].weights = w]
             IN  IF Len(d) # Len(layers[n].biases)
                 THEN [status |-> ShapeMismatch, layers |-> l1]
                 ELSE [status |-> OK,
                       layers |-> [l1 EXCEPT ![n].biases =
                           Vector_add(Vector_scalar_multiply(d, learning_rate),
                                      layers[n].biases)]]

update(layers, wg, d, learning_rate) ==
    IF ~SameShape(wg, layers[1].weights)
    THEN [status |-> ShapeMismatch, layers |-> layers]
    ELSE LET w == Matrix_add(Matrix_scalar_multiply(wg, learning_rate),
                             layers[1].weights)
             l1 == [layers EXCEPT ![1].weights = w]
         IN  IF Len(d) # Len(layers[1].biases)
             THEN [status |-> ShapeMismatch, layers |-> l1]
             ELSE [status |-> OK,
                   layers |-> [l1 EXCEPT ![1].biases =
                       Vector_add(Vector_scalar_multiply(d, learning_rate),
                                  layers[1].biases)]]

loss(layers, input, target) ==
    Vector_magnitude(Vector_subtract(forward(layers, input), target))

RECURSIVE count_below(_, _)
count_below(error, n) ==
    IF n = 0 THEN 0
    ELSE count_below(error, n - 1) + (IF Abs(error[n]) < Half THEN 1 ELSE 0)

RECURSIVE count_not_above(_, _)
count_not_above(error, n) ==
    IF n = 0 THEN 0
    ELSE count_not_above(error, n - 1) + (IF Abs(error[n]) <= Half THEN 1 ELSE 0)

\* accuracy as it would be if an error of exactly 0.5 counted as correct
accuracy_inclusive(layers, input, target) ==
    LET error == Vector_subtract(forward(layers, input), target)
        correct == FromUsize(count_not_above(error, Len(error)))
    IN  F32Div(correct, FromUsize(Len(target)))

accuracy(layers, input, target) ==
    LET error == Vector_subtract(forward(layers, input), target)
        correct == FromUsize(count_below(error, Len(error)))
    IN  F32Div(correct, FromUsize(Len(target)))

\* loss and accuracy both run forward and subtract the target
measurable(layers, input, target) ==
    /\ forward_ok(layers, Len(input), Len(layers))
    /\ Len(target) = layers[Len(layers)].weights.row_count

Min(a, b) == IF a < b THEN a ELSE b

RECURSIVE total_loss(_, _, _, _)
total_loss(layers, inputs, targets, n) ==
    IF n = 0 THEN 0
    ELSE F32Add(total_loss(layers, inputs, targets, n - 1),
                loss(layers, inputs[n], targets[n]))

RECURSIVE total_accuracy(_, _, _, _)
total_accuracy(layers, inputs, targets, n) ==
    IF n = 0 THEN 0
    ELSE F32Add(total_accuracy(layers, inputs, targets, n - 1),
                accuracy(layers, inputs[n], targets[n]))

evaluate(layers, inputs, targets) ==
    LET n == Min(Len(inputs), Len(targets))
    IN  <<F32Div(total_loss(layers, inputs, targets, n), FromUsize(Len(inputs))),
          F32Div(total_accuracy(layers, inputs, targets, n), FromUsize(Len(inputs)))>>

\* loss_batch as it would be if the total were not divided by the count
loss_batch_total(layers, inputs, targets) ==
    total_loss(layers, inputs, targets, Min(Len(inputs), Len(targets)))

loss_batch(layers, inputs, targets) ==
    F32Div(total_loss(layers, inputs, targets, Min(Len(inputs), Len(targets))),
           FromUsize(Len(inputs)))

accuracy_batch(layers, inputs, targets) ==
    F32Div(total_accuracy(layers, inputs, targets, Min(Len(inputs), Len(targets))),
           FromUsize(Len(inputs)))

evaluate_batch(layers, inputs, targets) ==
    <<loss_batch(layers, inputs, targets), accuracy_batch(layers, inputs, targets)>>

predict_batch(layers, inputs) ==
    [k \in 1..Len(inputs) |-> predict(layers, inputs[k])]

(***************************************************************************)
(* The networks and the arguments the operations are applied to            *)
(***************************************************************************)
WeightTable == <<Unit, 0, -Half, Half, -Unit, 2 * Unit>>

BiasTable == <<0, Half, -Unit>>

MkMatrix(rows, cols, seed) ==
    Matrix_new(rows, cols,
        [r \in 1..rows |-> [c \in 1..cols |->
            WeightTable[((seed + 2 * r + c) % Len(WeightTable)) + 1]]])

MkLayer(in, out, seed) ==
    Layer_new(MkMatrix(out, in, seed),
              [r \in 1..out |-> BiasTable[((seed + r) % Len(BiasTable)) + 1]])

\* Network::new on a list of layers of the given widths
MkNetwork(widths, seed) ==
    [k \in 1..(Len(widths) - 1) |-> MkLayer(widths[k], widths[k + 1], seed + k)]

Shapes ==
    {<<1, 1>>, <<2, 1>>, <<2, 2>>, <<1, 1, 1>>, <<2, 2, 2>>, <<1, 2, 1>>, <<2, 1, 1>>,
     <<1, 1, 1, 1>>}

Seeds == {0, 1}

Networks == {MkNetwork(w, s) : w \in Shapes, s \in Seeds}

InputPool == {<<0>>, <<Unit>>, <<0, 0>>, <<Unit, Half>>}

TargetPool == {<<0>>, <<4 * Unit>>, <<Unit>>, <<0, Unit>>, <<4 * Unit, Half>>}

\* 0.1 as the nearest representable value
PointOne == RoundRatio(Unit, 10)

LearningRates == {PointOne, Unit}

\* arguments of a direct call of update that no backward produced
UpdatePool ==
    {<<Matrix_new(1, 1, <<<<Unit>>>>), <<Half>>>>,
     <<Matrix_new(1, 1, <<<<Unit>>>>), <<Half, Half>>>>,
     <<Matrix_new(2, 2, <<<<Unit, 0>>, <<0, -Unit>>>>), <<Half, Unit>>>>}

DataSets ==
    {<<<< <<0>>, <<Unit>> >>, << <<0>>, <<Unit>> >>>>,
     <<<< <<0, 0>>, <<Unit, Half>> >>, << <<Unit>>, <<0>> >>>>,
     <<<< <<Unit, Half>> >>, << <<0, Unit>> >>>>}

(***************************************************************************)
(* State                                                                   *)
(***************************************************************************)
VARIABLES layers, initial, call, ops, tr, progress, io, cv

vars == <<layers, initial, call, ops, tr, progress, io, cv>>

NoCall ==
    [op |-> "none", status |-> OK, input |-> <<>>, target |-> <<>>,
     vector |-> NoVector, scalar |-> 0, pair |-> <<0, 0>>,
     back |-> backward_failed, wg |-> NoMatrix, d |-> NoVector,
     learning_rate |-> 0, chained |-> FALSE, pre |-> <<>>]

NoTrain ==
    [pc |-> "idle", inputs |-> <<>>, targets |-> <<>>, epochs |-> 0,
     epoch |-> 0, i |-> 0, total_loss |-> 0, total_accuracy |-> 0,
     wg |-> NoMatrix, d |-> NoVector, backwards |-> 0, updates |-> 0,
     start |-> <<>>]

NoProgress == [len |-> 0, pos |-> 0, text |-> "", epoch |-> 0, loss |-> 0, accuracy |-> 0]

NoIO == [header |-> FALSE, text |-> <<>>, file |-> <<>>, written |-> FALSE,
         loaded |-> <<>>, op |-> "none"]

NoConv == [pc |-> "idle", inputs |-> <<>>, targets |-> <<>>, learning_rate |-> 0,
           max_epochs |-> 0, tolerance |-> 0, epoch |-> 0, i |-> 0,
           prev_inf |-> TRUE, prev_loss |-> 0, loss |-> 0]

Init ==
    /\ layers \in Networks
    /\ initial = layers
    /\ call = NoCall
    /\ ops = 0
    /\ tr = NoTrain
    /\ progress = NoProgress
    /\ io = NoIO
    /\ cv = NoConv

\* no panic has aborted the program and no training call is in progress
Ready ==
    /\ call.status = OK
    /\ tr.pc \in {"idle", "done"}
    /\ ops < MaxOps

(***************************************************************************)
(* Operations of Network                                                   *)
(***************************************************************************)
Forward ==
    /\ Ready
    /\ \E input \in InputPool :
        call' = IF forward_ok(layers, Len(input), Len(layers))
                THEN [NoCall EXCEPT !.pre = layers, !.op = "forward", !.input = input,
                                    !.vector = forward(layers, input)]
                ELSE [NoCall EXCEPT !.pre = layers, !.op = "forward", !.input = input,
                                    !.status = ShapeMismatch]
    /\ ops' = ops + 1
    /\ UNCHANGED <<layers, initial, tr, progress, io, cv>>

Predict ==
    /\ Ready
    /\ \E input \in InputPool :
        call' = IF forward_ok(layers, Len(input), Len(layers))
                THEN [NoCall EXCEPT !.pre = layers, !.op = "predict", !.input = input,
                                    !.vector = predict(layers, input)]
                ELSE [NoCall EXCEPT !.pre = layers, !.op = "predict", !.input = input,
                                    !.status = ShapeMismatch]
    /\ ops' = ops + 1
    /\ UNCHANGED <<layers, initial, tr, progress, io, cv>>

Loss ==
    /\ Ready
    /\ \E input \in InputPool, target \in TargetPool :
        call' = IF measurable(layers, input, target)
                THEN [NoCall EXCEPT !.pre = layers, !.op = "loss", !.input = input,
                                    !.target = target,
                                    !.scalar = loss(layers, input, target)]
                ELSE [NoCall EXCEPT !.pre = layers, !.op = "loss", !.input = input,
                                    !.target = target, !.status = ShapeMismatch]
    /\ ops' = ops + 1
    /\ UNCHANGED <<layers, initial, tr, progress, io, cv>>

Accuracy ==
    /\ Ready
    /\ \E input \in InputPool, target \in TargetPool :
        call' = IF measurable(layers, input, target)
                THEN [NoCall EXCEPT !.pre = layers, !.op = "accuracy", !.input = input,
                                    !.target = target,
                                    !.scalar = accuracy(layers, input, target)]
                ELSE [NoCall EXCEPT !.pre = layers, !.op = "accuracy", !.input = input,
                                    !.target = target, !.status = ShapeMismatch]
    /\ ops' = ops + 1
    /\ UNCHANGED <<layers, initial, tr, progress, io, cv>>

AllMeasurable(ls, inputs, targets) ==
    \A k \in 1..Min(Len(inputs), Len(targets)) : measurable(ls, inputs[k], targets[k])

Evaluate ==
    /\ Ready
    /\ \E ds \in DataSets :
        call' = IF AllMeasurable(layers, ds[1], ds[2])
                THEN [NoCall EXCEPT !.pre = layers, !.op = "evaluate", !.input = ds[1],
                                    !.target = ds[2],
                                    !.pair = evaluate(layers, ds[1], ds[2])]
                ELSE [NoCall EXCEPT !.pre = layers, !.op = "evaluate", !.input = ds[1],
                                    !.target = ds[2], !.status = ShapeMismatch]
    /\ ops' = ops + 1
    /\ UNCHANGED <<layers, initial, tr, progress, io, cv>>

Backward ==
    /\ Ready
    /\ \E input \in InputPool, target \in TargetPool :
        LET b == backward(layers, input, target)
        IN  call' = [NoCall EXCEPT !.pre = layers, !.op = "backward", !.input = input,
                                   !.target = target, !.status = b.status,
                                   !.back = b]
    /\ ops' = ops + 1
    /\ UNCHANGED <<layers, initial, tr, progress, io, cv>>

\* update with the pair the preceding backward returned, or with any other
UpdateArgs ==
    UpdatePool \cup
        (IF call.op = "backward" /\ call.status = OK
         THEN {<<call.back.total_weight_gradients, call.back.total_delta>>}
         ELSE {})

Update ==
    /\ Ready
    /\ \E a \in UpdateArgs, lr \in LearningRates :
        LET u == update(layers, a[1], a[2], lr)
        IN  /\ layers' = u.layers
            /\ call' = [NoCall EXCEPT !.pre = layers, !.op = "update", !.status = u.status,
                                      !.wg = a[1], !.d = a[2],
                                      !.learning_rate = lr,
                                      !.chained =
                                          /\ call.op = "backward"
                                          /\ call.status = OK
                                          /\ a = <<call.back.total_weight_gradients,
                                                   call.back.total_delta>>]
    /\ ops' = ops + 1
    /\ UNCHANGED <<initial, tr, progress, io, cv>>

(***************************************************************************)
(* Network::train, one step of the loop at a time                          *)
(***************************************************************************)
TrainBegin ==
    /\ Ready
    /\ \E inputs \in InputPool, targets \in TargetPool, epochs \in 0..MaxTrainEpochs :
        /\ tr' = [NoTrain EXCEPT !.pc = IF epochs = 0 THEN "finish" ELSE "backward",
                                 !.inputs = inputs, !.targets = targets,
                                 !.epochs = epochs, !.start = layers]
        /\ progress' = [NoProgress EXCEPT !.len = epochs, !.text = "Training..."]
    /\ call' = [NoCall EXCEPT !.pre = layers, !.op = "train"]
    /\ ops' = ops + 1
    /\ UNCHANGED <<layers, initial, io, cv>>

TrainBackward ==
    /\ tr.pc = "backward"
    /\ LET b == backward(layers, tr.inputs, tr.targets)
       IN  tr' = IF b.status = OK
                 THEN [tr EXCEPT !.pc = "update", !.wg = b.total_weight_gradients,
                                 !.d = b.total_delta, !.backwards = @ + 1]
                 ELSE [tr EXCEPT !.pc = "panicked", !.backwards = @ + 1]
    /\ UNCHANGED <<layers, initial, call, ops, progress, io, cv>>

TrainUpdate ==
    /\ tr.pc = "update"
    /\ LET u == update(layers, tr.wg, tr.d, PointOne)
       IN  /\ layers' = u.layers
           /\ tr' = IF u.status = OK
                    THEN [tr EXCEPT !.pc = "metrics", !.updates = @ + 1]
                    ELSE [tr EXCEPT !.pc = "panicked"]
    /\ UNCHANGED <<initial, call, ops, progress, io, cv>>

TrainMetrics ==
    /\ tr.pc = "metrics"
    /\ tr' = [tr EXCEPT
                !.total_loss = F32Add(@, loss(layers, tr.inputs, tr.targets)),
                !.total_accuracy = F32Add(@, accuracy(layers, tr.inputs, tr.targets)),
                !.i = @ + 1,
                !.pc = IF tr.i + 1 < Len(tr.inputs) THEN "backward" ELSE "epoch_end"]
    /\ UNCHANGED <<layers, initial, call, ops, progress, io, cv>>

TrainEpochEnd ==
    /\ tr.pc = "epoch_end"
    /\ progress' = [progress EXCEPT
                      !.pos = @ + 1, !.text = "Epoch", !.epoch = tr.epoch + 1,
                      !.loss = F32Div(tr.total_loss, FromUsize(Len(tr.inputs))),
                      !.accuracy = F32Div(tr.total_accuracy, FromUsize(Len(tr.inputs)))]
    /\ tr' = [tr EXCEPT !.epoch = @ + 1, !.i = 0, !.total_loss = 0,
                        !.total_accuracy = 0,
                        !.pc = IF tr.epoch + 1 < tr.epochs THEN "backward" ELSE "finish"]
    /\ UNCHANGED <<layers, initial, call, ops, io, cv>>

TrainFinish ==
    /\ tr.pc = "finish"
    /\ progress' = [progress EXCEPT !.text = "Training complete!"]
    /\ tr' = [tr EXCEPT !.pc = "done"]
    /\ UNCHANGED <<layers, initial, call, ops, io, cv>>

Next ==
    \/ Forward
    \/ Predict
    \/ Loss
    \/ Accuracy
    \/ Evaluate
    \/ Backward
    \/ Update
    \/ TrainBegin
    \/ TrainBackward
    \/ TrainUpdate
    \/ TrainMetrics
    \/ TrainEpochEnd
    \/ TrainFinish

Spec == Init /\ [][Next]_vars

(***************************************************************************)
(* The batch helpers                                                       *)
(***************************************************************************)
Copies(x, k) == [j \in 1..k |-> x]

Batches ==
    {<<Copies(input, k), Copies(target, k)>> :
        input \in InputPool, target \in TargetPool, k \in 1..MaxK} \cup DataSets

\* the batch helpers read the network only: one call on the constructed
\* network shows all they can do
BatchReady == call.op = "none" /\ ops < MaxOps

LossBatch ==
    /\ BatchReady
    /\ \E b \in Batches :
        call' = IF AllMeasurable(layers, b[1], b[2])
                THEN [NoCall EXCEPT !.pre = layers, !.op = "loss_batch", !.input = b[1],
                                    !.target = b[2],
                                    !.scalar = loss_batch(layers, b[1], b[2])]
                ELSE [NoCall EXCEPT !.pre = layers, !.op = "loss_batch", !.input = b[1],
                                    !.target = b[2], !.status = ShapeMismatch]
    /\ ops' = ops + 1
    /\ UNCHANGED <<layers, initial, tr, progress, io, cv>>

AccuracyBatch ==
    /\ BatchReady
    /\ \E b \in Batches :
        call' = IF AllMeasurable(layers, b[1], b[2])
                THEN [NoCall EXCEPT !.pre = layers, !.op = "accuracy_batch", !.input = b[1],
                                    !.target = b[2],
                                    !.scalar = accuracy_batch(layers, b[1], b[2])]
                ELSE [NoCall EXCEPT !.pre = layers, !.op = "accuracy_batch", !.input = b[1],
                                    !.target = b[2], !.status = ShapeMismatch]
    /\ ops' = ops + 1
    /\ UNCHANGED <<layers, initial, tr, progress, io, cv>>

EvaluateBatch ==
    /\ BatchReady
    /\ \E b \in Batches :
        call' = IF AllMeasurable(layers, b[1], b[2])
                THEN [NoCall EXCEPT !.pre = layers, !.op = "evaluate_batch", !.input = b[1],
                                    !.target = b[2],
                                    !.pair = evaluate_batch(layers, b[1], b[2])]
                ELSE [NoCall EXCEPT !.pre = layers, !.op = "evaluate_batch", !.input = b[1],
                                    !.target = b[2], !.status = ShapeMismatch]
    /\ ops' = ops + 1
    /\ UNCHANGED <<layers, initial, tr, progress, io, cv>>

EvaluateAll ==
    /\ BatchReady
    /\ \E b \in Batches :
        call' = IF AllMeasurable(layers, b[1], b[2])
                THEN [NoCall EXCEPT !.pre = layers, !.op = "evaluate", !.input = b[1],
                                    !.target = b[2],
                                    !.pair = evaluate(layers, b[1], b[2])]
                ELSE [NoCall EXCEPT !.pre = layers, !.op = "evaluate", !.input = b[1],
                                    !.target = b[2], !.status = ShapeMismatch]
    /\ ops' = ops + 1
    /\ UNCHANGED <<layers, initial, tr, progress, io, cv>>

PredictBatch ==
    /\ BatchReady
    /\ \E b \in Batches :
        call' = IF \A k \in 1..Len(b[1]) : forward_ok(layers, Len(b[1][k]), Len(layers))
                THEN [NoCall EXCEPT !.pre = layers, !.op = "predict_batch", !.input = b[1],
                                    !.vector = predict_batch(layers, b[1])]
                ELSE [NoCall EXCEPT !.pre = layers, !.op = "predict_batch", !.input = b[1],
                                    !.status = ShapeMismatch]
    /\ ops' = ops + 1
    /\ UNCHANGED <<layers, initial, tr, progress, io, cv>>

NextBatch ==
    \/ LossBatch
    \/ AccuracyBatch
    \/ EvaluateBatch
    \/ EvaluateAll
    \/ PredictBatch

SpecBatch == Init /\ [][NextBatch]_vars

(***************************************************************************)
(* The textual format: to_string, from_str, save, load                     *)
(***************************************************************************)
Word(w) == [kind |-> w, value |-> 0]

Num(n) == [kind |-> "num", value |-> n]

LayerToken == Word("Layer")

NewLine == Word("\n")

RECURSIVE Flatten(_, _)
Flatten(rows, n) == IF n = 0 THEN <<>> ELSE Flatten(rows, n - 1) \o rows[n]

\* Layer::to_str: the dimensions, the weights row by row and the biases,
\* behind the word Layer when the format carries it
Layer_to_str(layer, header) ==
    LET nums == <<layer.weights.row_count, layer.weights.col_count>>
                \o Flatten(layer.weights.elements, layer.weights.row_count)
                \o layer.biases
    IN  (IF header THEN <<LayerToken>> ELSE <<>>)
        \o [k \in 1..Len(nums) |-> Num(nums[k])]

RECURSIVE Numbers(_, _)
Numbers(s, n) ==
    IF n = 0 THEN <<>>
    ELSE IF s[n].kind = "num" THEN Append(Numbers(s, n - 1), s[n].value)
    ELSE Numbers(s, n - 1)

\* Layer::from_str: reads the dimensions, then as many weights and biases;
\* a fragment that does not hold them gives a layer without parameters
Layer_from_str(s) ==
    LET nums == Numbers(s, Len(s))
    IN  IF Len(nums) < 2 \/ Len(nums) < 2 + nums[1] * nums[2] + nums[1]
        THEN Layer_new(NoMatrix, NoVector)
        ELSE LET rows == nums[1]
                 cols == nums[2]
             IN  Layer_new(
                    Matrix_new(rows, cols,
                        [r \in 1..rows |-> [c \in 1..cols |->
                            nums[2 + (r - 1) * cols + c]]]),
                    [r \in 1..rows |-> nums[2 + rows * cols + r]])

RECURSIVE Join(_, _, _)
Join(strs, sep, n) ==
    IF n = 0 THEN <<>>
    ELSE IF n = 1 THEN strs[1]
    ELSE Join(strs, sep, n - 1) \o <<sep>> \o strs[n]

\* str::split on a pattern: the pieces between its occurrences, all of them
RECURSIVE Split(_, _, _)
Split(s, pat, n) ==
    IF n = 0 THEN << <<>> >>
    ELSE LET before == Split(s, pat, n - 1)
             m == Len(before)
         IN  IF s[n] = pat THEN Append(before, <<>>)
             ELSE [before EXCEPT ![m] = Append(@, s[n])]

to_string(ls, header) ==
    Join([k \in 1..Len(ls) |-> Layer_to_str(ls[k], header)], NewLine, Len(ls))

from_str(s) ==
    LET parts == Split(s, LayerToken, Len(s))
    IN  [k \in 1..Len(parts) |-> Layer_from_str(parts[k])]

LayerPool == {MkLayer(1, 1, 1), MkLayer(2, 1, 2), MkLayer(1, 2, 3), MkLayer(2, 2, 4)}

RECURSIVE LayerLists(_)
LayerLists(n) ==
    IF n = 0 THEN {<<>>}
    ELSE LET shorter == LayerLists(n - 1)
         IN  shorter \cup {Append(l, x) : l \in {y \in shorter : Len(y) = n - 1},
                                          x \in LayerPool}

TextNetworks == {l \in LayerLists(MaxTextLayers) : Len(l) >= 1}

InitText ==
    /\ layers \in TextNetworks
    /\ initial = layers
    /\ call = NoCall
    /\ ops = 0
    /\ tr = NoTrain
    /\ progress = NoProgress
    /\ io \in {[NoIO EXCEPT !.header = h] : h \in BOOLEAN}
    /\ cv = NoConv

ToString ==
    /\ io.op = "none"
    /\ io' = [io EXCEPT !.text = to_string(layers, io.header), !.op = "to_string"]
    /\ UNCHANGED <<layers, initial, call, ops, tr, progress, cv>>

FromStr ==
    /\ io.op = "to_string"
    /\ io' = [io EXCEPT !.loaded = from_str(io.text), !.op = "from_str"]
    /\ UNCHANGED <<layers, initial, call, ops, tr, progress, cv>>

Save ==
    /\ io.op = "none"
    /\ io' = [io EXCEPT !.file = to_string(layers, io.header), !.written = TRUE,
                        !.op = "save"]
    /\ UNCHANGED <<layers, initial, call, ops, tr, progress, cv>>

Load ==
    /\ io.written
    /\ io.op = "save"
    /\ io' = [io EXCEPT !.loaded = from_str(io.file), !.op = "load"]
    /\ UNCHANGED <<layers, initial, call, ops, tr, progress, cv>>

NextText ==
    \/ ToString
    \/ FromStr
    \/ Save
    \/ Load

SpecText == InitText /\ [][NextText]_vars

(***************************************************************************)
(* train_until_convergence and train_epoch (lines 148-152 and 177-187,     *)
(* kept in the source as comments)                                         *)
(***************************************************************************)
Tolerances == {0, Half}

ConvDataSets == DataSets \cup {<<<< <<0>> >>, << <<4 * Unit>> >>>>}

\* train_epoch applies, to each example in order, one backward and one
\* update with its result
update_with(ls, b, learning_rate) ==
    IF b.status # OK THEN [status |-> ShapeMismatch, layers |-> ls]
    ELSE update(ls, b.total_weight_gradients, b.total_delta, learning_rate)

train_example(ls, input, target, learning_rate) ==
    update_with(ls, backward(ls, input, target), learning_rate)

\* the loop condition as it would be without the bound on the epochs
conv_continue_unbounded(c) ==
    c.prev_inf \/ Abs(F32Sub(c.prev_loss, c.loss)) > c.tolerance

\* (prev_loss - loss).abs() > tolerance && epoch < max_epochs
conv_continue(c) ==
    /\ (c.prev_inf \/ Abs(F32Sub(c.prev_loss, c.loss)) > c.tolerance)
    /\ c.epoch < c.max_epochs

ConvBegin ==
    /\ cv.pc = "idle"
    /\ \E ds \in ConvDataSets, lr \in LearningRates, m \in 0..MaxEpochs,
          tol \in Tolerances :
        cv' = IF AllMeasurable(layers, ds[1], ds[2])
              THEN [NoConv EXCEPT !.pc = "loop", !.inputs = ds[1],
                                  !.targets = ds[2], !.learning_rate = lr,
                                  !.max_epochs = m, !.tolerance = tol,
                                  !.loss = evaluate(layers, ds[1], ds[2])[1]]
              ELSE [NoConv EXCEPT !.pc = "panicked", !.inputs = ds[1],
                                  !.targets = ds[2], !.learning_rate = lr,
                                  !.max_epochs = m, !.tolerance = tol]
    /\ UNCHANGED <<layers, initial, call, ops, tr, progress, io>>

ConvEnter ==
    /\ cv.pc = "loop"
    /\ conv_continue(cv)
    /\ cv' = [cv EXCEPT !.pc = "train_epoch", !.prev_inf = FALSE,
                        !.prev_loss = cv.loss, !.i = 0]
    /\ UNCHANGED <<layers, initial, call, ops, tr, progress, io>>

ConvTrainExample ==
    /\ cv.pc = "train_epoch"
    /\ cv.i < Min(Len(cv.inputs), Len(cv.targets))
    /\ LET t == train_example(layers, cv.inputs[cv.i + 1], cv.targets[cv.i + 1],
                              cv.learning_rate)
       IN  /\ layers' = t.layers
           /\ cv' = IF t.status = OK THEN [cv EXCEPT !.i = @ + 1]
                    ELSE [cv EXCEPT !.pc = "panicked"]
    /\ UNCHANGED <<initial, call, ops, tr, progress, io>>

ConvEvaluate ==
    /\ cv.pc = "train_epoch"
    /\ cv.i >= Min(Len(cv.inputs), Len(cv.targets))
    /\ cv' = [cv EXCEPT !.pc = "loop",
                        !.loss = evaluate(layers, cv.inputs, cv.targets)[1],
                        !.epoch = @ + 1]
    /\ UNCHANGED <<layers, initial, call, ops, tr, progress, io>>

ConvExit ==
    /\ cv.pc = "loop"
    /\ ~conv_continue(cv)
    /\ cv' = [cv EXCEPT !.pc = "done"]
    /\ UNCHANGED <<layers, initial, call, ops, tr, progress, io>>

NextConv ==
    \/ ConvBegin
    \/ ConvEnter
    \/ ConvTrainExample
    \/ ConvEvaluate
    \/ ConvExit

SpecConv == Init /\ [][NextConv]_vars

(***************************************************************************)
(* Properties                                                              *)
(***************************************************************************)
ReadOnlyOps == {"forward", "predict", "loss", "accuracy", "evaluate", "backward"}

\* C1: in backward the output error is prediction - target and the output
\* delta is the error times prediction * (1 - prediction), component by
\* component.
C1_OutputDelta ==
    (call.op = "backward" /\ measurable(call.pre, call.input, call.target)) =>
        LET p == forward(call.pre, call.input)
        IN  /\ call.back.error = [j \in 1..Len(p) |-> F32Sub(p[j], call.target[j])]
            /\ \A j \in 1..Len(p) :
                 call.back.deltas[1][j] =
                     F32Mul(F32Sub(p[j], call.target[j]),
                            F32Mul(p[j], F32Sub(Unit, p[j])))

\* C2: for every network of consistent adjacent widths and correctly sized
\* input and target, backward returns the sum of the per-layer weight
\* gradients and the sum of the per-layer deltas, accumulated from zeros
\* shaped by the first layer.
C2_BackwardReturnsSums ==
    (call.op = "backward" /\ measurable(call.pre, call.input, call.target)) =>
        LET n == Len(call.pre)
            first == call.pre[1].weights
        IN  /\ call.status = OK
            /\ Len(call.back.weight_gradients) = n
            /\ Len(call.back.deltas) = n
            /\ call.back.total_weight_gradients =
                 sum_matrices(Matrix_zeros(first.col_count, first.row_count),
                              call.back.weight_gradients, n)
            /\ call.back.total_delta =
                 sum_vectors(Vector_zeros(first.row_count), call.back.deltas, n)

\* C3: update called with the pair that backward returned for a correctly
\* sized input and target completes without a failure, whatever the shape
\* of the layers.
C3_UpdateAfterBackwardCompletes ==
    (call.op = "update" /\ call.chained) => call.status = OK

\* C7: update changes the first layer only, to old + learning_rate * gradient
\* for the weights and the biases; the number of layers and every layer
\* after the first keep their initial parameters through any sequence of
\* operations, and the reading operations change nothing.
C7_UpdateFrame ==
    /\ Len(layers) = Len(initial)
    /\ \A k \in 2..Len(layers) : layers[k] = initial[k]
    /\ (call.op \in ReadOnlyOps) => layers = call.pre
    /\ (call.op = "update" /\ call.status = OK) =>
         LET old == call.pre[1]
             new == layers[1]
         IN  /\ SameShape(new.weights, old.weights)
             /\ \A r \in 1..old.weights.row_count, c \in 1..old.weights.col_count :
                  new.weights.elements[r][c] =
                      F32Add(old.weights.elements[r][c],
                             F32Mul(call.learning_rate, call.wg.elements[r][c]))
             /\ Len(new.biases) = Len(old.biases)
             /\ \A r \in 1..Len(old.biases) :
                  new.biases[r] =
                      F32Add(old.biases[r], F32Mul(call.learning_rate, call.d[r]))

C7_Witness ==
    /\ call.op = "update"
    /\ call.status = OK
    /\ call.chained
    /\ Len(layers) >= 2
    /\ layers[1].weights # call.pre[1].weights
    /\ layers[1].biases # call.pre[1].biases

\* C8: accuracy is the number of components whose absolute error is
\* strictly below 0.5 divided by the length of the target; it lies between
\* 0 and 1, and a component whose absolute error is exactly 0.5 does not
\* count.
C8_Accuracy ==
    (call.op = "accuracy" /\ call.status = OK) =>
        LET out == forward(layers, call.input)
            below == {j \in 1..Len(out) :
                         Abs(F32Sub(out[j], call.target[j])) < Half}
        IN  /\ call.scalar = F32Div(FromUsize(Cardinality(below)),
                                    FromUsize(Len(call.target)))
            /\ call.scalar >= 0
            /\ call.scalar <= Unit
            /\ (\A j \in 1..Len(out) : Abs(F32Sub(out[j], call.target[j])) = Half)
                  => call.scalar = 0

C8_Witness ==
    /\ call.op = "accuracy"
    /\ call.status = OK
    /\ Len(call.target) = 2
    /\ call.scalar = Half
    /\ LET out == forward(layers, call.input)
       IN  \E j \in 1..Len(out) : Abs(F32Sub(out[j], call.target[j])) = Half

\* C9: backward caches n+1 outputs, the input first and each next one the
\* forward of the next layer on the one before, the last being
\* forward(input); it produces one delta and one weight gradient per layer
\* from the last layer to the first, every delta from the delta produced
\* just before it and every weight gradient from its layer's own input and
\* output.
C9_BackwardPasses ==
    (call.op = "backward" /\ measurable(call.pre, call.input, call.target)) =>
        LET n == Len(call.pre)
            b == call.back
        IN  /\ Len(b.outputs) = n + 1
            /\ b.outputs[1] = call.input
            /\ \A k \in 1..n :
                 b.outputs[k + 1] = Layer_forward(call.pre[k], b.outputs[k])
            /\ b.outputs[n + 1] = forward(call.pre, call.input)
            /\ Len(b.deltas) = n
            /\ Len(b.weight_gradients) = n
            /\ b.weight_gradients[1] =
                 weight_gradients(call.pre, b.outputs[n], b.outputs[n + 1], b.deltas[1])
            /\ \A k \in 2..n :
                 /\ b.deltas[k] =
                      Layer_delta(call.pre[n - k + 2], b.deltas[k - 1],
                                  output_gradient(b.outputs[n - k + 2]))
                 /\ b.weight_gradients[k] =
                      Layer_weight_gradients(call.pre[n - k + 2], b.outputs[n - k + 1],
                                             b.outputs[n - k + 2], b.deltas[k])

C9_Witness ==
    /\ call.op = "backward"
    /\ call.status = OK
    /\ Len(call.pre) = 3
    /\ \A k \in 1..3 : \E j \in 1..Len(call.back.deltas[k]) :
                          call.back.deltas[k][j] # 0
    /\ call.back.deltas[1] # call.back.deltas[2]

\* C10: train ends after exactly `epochs` epochs of inputs.len() steps,
\* each one backward followed by one update, epochs * inputs.len() updates
\* in all, and leaves the network unchanged when epochs is 0.
C10_TrainRunsAllEpochs ==
    /\ tr.backwards \in {tr.updates, tr.updates + 1}
    /\ (tr.pc \in {"done", "panicked"}
          /\ measurable(tr.start, tr.inputs, tr.targets)) =>
         /\ tr.pc = "done"
         /\ tr.epoch = tr.epochs
         /\ tr.updates = tr.epochs * Len(tr.inputs)
         /\ tr.backwards = tr.updates
         /\ (tr.epochs = 0 => layers = tr.start)

IdenticalPairs(c) ==
    /\ Len(c.input) >= 1
    /\ Len(c.input) = Len(c.target)
    /\ \A k \in 1..Len(c.input) : c.input[k] = c.input[1] /\ c.target[k] = c.target[1]

RECURSIVE RunningSum(_, _)
RunningSum(xs, n) == IF n = 0 THEN 0 ELSE F32Add(RunningSum(xs, n - 1), xs[n])

\* C6 as stated: evaluate_batch on k >= 1 copies of one pair returns
\* exactly (loss, accuracy) of that pair.
C6_CopiesExact ==
    (call.op = "evaluate_batch" /\ call.status = OK /\ IdenticalPairs(call)) =>
        call.pair = <<loss(layers, call.input[1], call.target[1]),
                      accuracy(layers, call.input[1], call.target[1])>>

\* C6 as amended: loss_batch, accuracy_batch, evaluate_batch and evaluate
\* return the f32 running sum of the per-pair values divided by the count;
\* on k copies of one pair that is exactly (loss, accuracy) for k <= 2.
C6_BatchMean ==
    (call.op \in {"loss_batch", "accuracy_batch", "evaluate_batch", "evaluate"}
        /\ call.status = OK) =>
        LET n == Len(call.input)
            losses == [k \in 1..n |-> loss(layers, call.input[k], call.target[k])]
            accs == [k \in 1..n |-> accuracy(layers, call.input[k], call.target[k])]
            mean_loss == F32Div(RunningSum(losses, n), FromUsize(n))
            mean_acc == F32Div(RunningSum(accs, n), FromUsize(n))
        IN  /\ call.op = "loss_batch" => call.scalar = mean_loss
            /\ call.op = "accuracy_batch" => call.scalar = mean_acc
            /\ call.op \in {"evaluate_batch", "evaluate"} =>
                 call.pair = <<mean_loss, mean_acc>>
            /\ (IdenticalPairs(call) /\ n <= 2) =>
                 /\ call.op = "loss_batch" => call.scalar = losses[1]
                 /\ call.op = "accuracy_batch" => call.scalar = accs[1]
                 /\ call.op \in {"evaluate_batch", "evaluate"} =>
                      call.pair = <<losses[1], accs[1]>>

C6_Witness ==
    /\ call.op = "evaluate_batch"
    /\ call.status = OK
    /\ IdenticalPairs(call)
    /\ Len(call.input) = 2
    /\ call.pair[1] > 0
    /\ call.pair[2] > 0

\* C4: from_str(to_string()) of a network of n >= 1 layers, and load after
\* save, gives exactly n layers, the i-th parsed from the text of the i-th.
C4_RoundTrip ==
    (io.op \in {"from_str", "load"}) =>
        /\ Len(io.loaded) = Len(layers)
        /\ \A k \in 1..Len(layers) :
             io.loaded[k] = Layer_from_str(Layer_to_str(layers[k], io.header))

====
